---- MODULE Spec2Model ----
(***************************************************************************)
(* A model of the ytdlnis backend (server/app): the Redis job record store *)
(* (job_state.py), the Celery task download_media (tasks.py), the local    *)
(* storage backend (storage.py) and the FastAPI handlers (main.py).        *)
(*                                                                         *)
(* Conventions                                                             *)
(*  - Optional[T] is a set: None is {} and a present value x is {x}.       *)
(*  - a float percentage is an integer number of thousandths of a percent  *)
(*    (45.0 is 45000); a decimal string is [units, digits]: "45.00" is     *)
(*    [units |-> 4500, digits |-> 2] and "0" is [units |-> 0, digits |-> 0]*)
(*  - a text string that the code inspects character by character is a     *)
(*    sequence of one-character strings.                                   *)
(*  - a Redis hash is a function from field names to values; the missing   *)
(*    key is the empty function.                                           *)
(*  - a file name is [stem, suffix]: the stem is a sequence of parts so    *)
(*    that f"{stem}-{counter}" is Append(stem, ToString(counter)).         *)
(***************************************************************************)
EXTENDS Integers, Sequences, FiniteSets, TLC

VARIABLES
    storage_backend,   \* Settings.storage_backend (STORAGE_BACKEND)
    allowed_domains,   \* Settings.allowed_domains (ALLOWED_DOMAINS)
    jobs,              \* Redis: job id -> hash stored under job:<id>
    tokens,            \* Redis: token -> JSON payload under download-token:<token>
    queue,             \* Celery broker: job ids with a task waiting for a worker
    files,             \* storage root: job id -> names present in its target directory
    placed,            \* the calls of LocalStorageBackend.store so far, in order
    clock,             \* wall clock read by _now_iso
    w,                 \* the worker running download_media
    execEvents,        \* events the current execution has published, in order
    execs,             \* executions of download_media started so far
    faults,            \* Redis calls that have raised so far
    created,           \* job ids create_job has minted
    api,               \* the request being served by the authenticated endpoints
    minted,            \* token -> descriptor passed to store_download_token
    clients,           \* download client -> its download_file request
    redeemed,          \* token -> number of pop_download_token calls that returned it
    sub,               \* the event stream subscription (_event_stream)
    stores             \* caller -> its call of LocalStorageBackend.store, step by step

vars == <<storage_backend, allowed_domains, jobs, tokens, queue, files, placed, clock, w,
          execEvents, execs, faults, created, api, minted, clients, redeemed, sub,
          stores>>

-----------------------------------------------------------------------------
(* Bounds of the model *)

MaxExecs == 2      \* executions of download_media the queue hands out
MaxFaults == 1     \* Redis calls that raise
MaxHooks == 1      \* progress notifications per extraction
MaxJobs == 1       \* jobs created
MaxTokens == 2     \* tokens minted
MaxClock == 1      \* clock ticks

JobIds == {"j1", "j2"}
Clients == {"c1", "c2"}
StoreCallers == {"s1", "s2"}

-----------------------------------------------------------------------------
(* Optional values and Python truthiness *)

None == {}
Some(x) == {x}
Val(o) == CHOOSE x \in o : TRUE

\* bool(value) for Optional[str]: None and "" are falsy
TruthyStr(o) == o # None /\ Val(o) # ""
\* bool(value) for an optional sequence or name: None and the empty one are falsy
TruthySeq(o) == o # None /\ Val(o) # <<>>

\* a float: a finite value in thousandths, or nan (no comparison with nan is true)
Float(v) == [nan |-> FALSE, v |-> v]
NaN == [nan |-> TRUE, v |-> 0]
Less(a, b) == ~a.nan /\ ~b.nan /\ a.v < b.v

\* the builtins max(a, b) and min(a, b): b is taken only if it compares beyond a
Max(a, b) == IF Less(a, b) THEN b ELSE a
Min(a, b) == IF Less(b, a) THEN b ELSE a

-----------------------------------------------------------------------------
(* job_state.py: JobStatus, keys, serialisation *)

QUEUED == "queued"
RUNNING == "running"
SUCCEEDED == "succeeded"
FAILED == "failed"
JobStatus == {QUEUED, RUNNING, SUCCEEDED, FAILED}

\* f"{progress:.2f}": thousandths rounded to hundredths
Format2f(progress) == [units |-> (progress + 5) \div 10, digits |-> 2]

\* float(text) of a decimal string written by the store
ParseFloat(text) == IF text.digits = 0 THEN text.units * 1000 ELSE text.units * 10

\* json.dumps of the result dict: an ordered list of key/value pairs
_serialize_result(result) ==
    IF result = None THEN None
    ELSE LET r == Val(result) IN
         Some(<< <<"mime", IF r.mime = None THEN <<"null">> ELSE <<"str", Val(r.mime)>> >>,
                 <<"file_name", <<"str", r.file_name>> >>,
                 <<"size_bytes", <<"num", r.size_bytes>> >>,
                 <<"storage_path", <<"str", r.storage_path>> >> >>)

\* json.loads of a serialised result
JsonLoadsResult(raw) ==
    [mime |-> IF raw[1][2][1] = "null" THEN None ELSE Some(raw[1][2][2]),
     file_name |-> raw[2][2][2],
     size_bytes |-> raw[3][2][2],
     storage_path |-> raw[4][2][2]]

_base_payload(status, progress, result, error, now) ==
    (IF result # None THEN [result |-> Val(_serialize_result(result))] ELSE <<>>)
    @@ (IF error # None THEN [error |-> Val(error)] ELSE <<>>)
    @@ [status |-> status, progress |-> Format2f(progress), updated_at |-> now]

\* HSET key field value [field value ...]: the given fields are set, the others kept
hset(hash, mapping) == mapping @@ hash

\* init_job writing the status of a started job
init_job_data_running(payload, now) ==
    [status |-> RUNNING, progress |-> [units |-> 0, digits |-> 0],
     created_at |-> now, updated_at |-> now, request |-> payload]

init_job_data(payload, now) ==
    [status |-> QUEUED, progress |-> [units |-> 0, digits |-> 0],
     created_at |-> now, updated_at |-> now, request |-> payload]

set_status_data(status, progress, now) == _base_payload(status, progress, None, None, now)

set_result_data(result, now) == _base_payload(SUCCEEDED, 100000, Some(result), None, now)

set_error_data(message, now) == _base_payload(FAILED, 0, None, Some(message), now)

\* JobState.from_redis: None for the empty hash
from_redis(job_id, payload) ==
    IF DOMAIN payload = {} THEN None
    ELSE Some([job_id |-> job_id,
               status |-> IF "status" \in DOMAIN payload THEN payload.status ELSE QUEUED,
               progress |-> IF "progress" \in DOMAIN payload
                            THEN ParseFloat(payload.progress) ELSE 0,
               result |-> IF "result" \in DOMAIN payload /\ payload.result # <<>>
                          THEN Some(JsonLoadsResult(payload.result)) ELSE None,
               error |-> IF "error" \in DOMAIN payload THEN Some(payload.error) ELSE None])

get_job(job_id) == from_redis(job_id, jobs[job_id])

to_dict(job) ==
    [id |-> job.job_id, status |-> job.status, progress |-> job.progress,
     result |-> job.result, error |-> job.error]

-----------------------------------------------------------------------------
(* storage.py *)

FileName(stem, suffix) == [stem |-> stem, suffix |-> suffix]
EmptyName == FileName(<<>>, "")

\* bool(name) for Optional[str] holding a file name
TruthyName(o) == o # None /\ Val(o) # EmptyName

\* the while loop of LocalStorageBackend.store: the first stem-counter name that is free
RECURSIVE NextFreeName(_, _, _, _)
NextFreeName(existing, stem, suffix, counter) ==
    LET destination == FileName(Append(stem, ToString(counter)), suffix) IN
    IF destination \in existing
    THEN NextFreeName(existing, stem, suffix, counter + 1)
    ELSE destination

\* StoreDestination with an `if` in place of the `while` of line 63: one suffix is tried
StoreDestination_single_suffix(existing, source_name, preferred_name) ==
    LET file_name == IF TruthyName(preferred_name) THEN Val(preferred_name) ELSE source_name IN
    IF file_name \in existing
    THEN FileName(Append(file_name.stem, ToString(1)), file_name.suffix)
    ELSE file_name

\* the destination LocalStorageBackend.store moves the source to
StoreDestination(existing, source_name, preferred_name) ==
    LET file_name == IF TruthyName(preferred_name) THEN Val(preferred_name) ELSE source_name IN
    IF file_name \in existing
    THEN NextFreeName(existing, file_name.stem, file_name.suffix, 1)
    ELSE file_name

\* Settings.normalized_storage_backend (the value is lower case already)
normalized_storage_backend(value) ==
    IF value \in {"loc_wisso", "filesystem"} THEN "local" ELSE value

\* get_storage_backend: the backend, or the exception it raises
get_storage_backend(value) ==
    LET backend == normalized_storage_backend(value) IN
    IF backend = "local" THEN [ok |-> TRUE, error |-> ""]
    ELSE IF backend = "s3"
         THEN [ok |-> FALSE, error |-> "S3 storage backend is not implemented yet"]
         ELSE [ok |-> FALSE, error |-> "Unsupported storage backend"]

\* one call of LocalStorageBackend.store: its arguments and StoredFile.file_name
StoreCall(job_id, source_name, preferred_name, file_name) ==
    [job_id |-> job_id, source_name |-> source_name, preferred_name |-> preferred_name,
     file_name |-> file_name]

\* str(stored.absolute_path): the target directory of the job and the name
PathStr(job_id, name) == <<job_id, name>>

-----------------------------------------------------------------------------
(* tasks.py: pure helpers *)

DigitChars == {"0", "1", "2", "3", "4", "5", "6", "7", "8", "9"}

DigitVal(c) ==
    CASE c = "0" -> 0 [] c = "1" -> 1 [] c = "2" -> 2 [] c = "3" -> 3 [] c = "4" -> 4
      [] c = "5" -> 5 [] c = "6" -> 6 [] c = "7" -> 7 [] c = "8" -> 8 [] c = "9" -> 9

RECURSIVE DigitsValue(_)
DigitsValue(s) ==
    IF s = <<>> THEN 0
    ELSE DigitsValue(SubSeq(s, 1, Len(s) - 1)) * 10 + DigitVal(s[Len(s)])

\* value.replace("%", "")
RemovePercent(s) == SelectSeq(s, LAMBDA c : c # "%")

\* str.strip()
RECURSIVE Strip(_)
Strip(s) ==
    IF s = <<>> THEN s
    ELSE IF Head(s) = " " THEN Strip(Tail(s))
    ELSE IF s[Len(s)] = " " THEN Strip(SubSeq(s, 1, Len(s) - 1))
    ELSE s

\* float(text) for [sign] digits [. digits]: the value in thousandths, None for ValueError
\* (at most three fractional digits are read; exponents and inf are not in the inputs)
ParseFloatStr(s) ==
    LET signed == s # <<>> /\ Head(s) \in {"-", "+"}
        body == IF signed THEN Tail(s) ELSE s
        points == {i \in 1..Len(body) : body[i] = "."}
        point == IF points = {} THEN Len(body) + 1 ELSE CHOOSE i \in points : TRUE
        whole == SubSeq(body, 1, point - 1)
        frac == SubSeq(body, point + 1, Len(body))
        wellFormed == /\ Cardinality(points) <= 1
                      /\ Len(whole) + Len(frac) >= 1
                      /\ \A i \in 1..Len(whole) : whole[i] \in DigitChars
                      /\ \A i \in 1..Len(frac) : frac[i] \in DigitChars
        magnitude == DigitsValue(whole) * 1000
                     + DigitsValue(SubSeq(frac \o <<"0", "0", "0">>, 1, 3))
    IN IF ~wellFormed THEN None
       ELSE Some(IF signed /\ Head(s) = "-" THEN 0 - magnitude ELSE magnitude)

\* float(cleaned): a decimal, or nan with an optional sign; None for ValueError
float(cleaned) ==
    IF cleaned \in {<<"n", "a", "n">>, <<"-", "n", "a", "n">>, <<"+", "n", "a", "n">>}
    THEN Some(NaN)
    ELSE IF ParseFloatStr(cleaned) = None THEN None
         ELSE Some(Float(Val(ParseFloatStr(cleaned))))

_normalize_progress(value) ==
    IF ~TruthySeq(value) THEN 0
    ELSE LET cleaned == Strip(RemovePercent(Val(value)))
             parsed == float(cleaned)
         IN IF parsed = None THEN 0
            ELSE Max(Float(0), Min(Float(100000), Val(parsed))).v

\* mimetypes.guess_type(path.name)[0]
_determine_mime(name) ==
    CASE name.suffix = ".mp4" -> Some("video/mp4")
      [] name.suffix = ".webm" -> Some("video/webm")
      [] OTHER -> None

\* info["_filename"]: outtmpl is payload["filename"] or "%(title)s.%(ext)s"
DefaultName == FileName(<<"title">>, ".webm")
OutputName(payload) ==
    IF TruthyName(payload.filename) THEN Val(payload.filename) ELSE DefaultName

-----------------------------------------------------------------------------
(* Inputs *)

StorageBackends == {"local", "s3", "ftp"}

\* JobCreateRequest after model_dump: url, filename and cookie (format, headers,
\* proxy and prefer_audio only reach yt-dlp)
GoodUrl == [scheme |-> "https", host |-> "media.example"]
VideoName == FileName(<<"video">>, ".mp4")
Payloads ==
    {[url |-> GoodUrl, filename |-> None, cookie |-> Some("sid=1")],
     [url |-> GoodUrl, filename |-> Some(VideoName), cookie |-> None]}

\* data["_percent_str"] of a downloading notification
PercentStrs ==
    {None,
     Some(<<" ", "4", "5", ".", "3", "%">>),
     Some(<<"1", "5", "0", "%">>)}

\* the outcomes of one store write: hset then expire, either of which may raise
WriteOutcomes == {"ok", "hset_raises", "expire_raises"}
\* the outcomes of one publish
PublishOutcomes == {"ok", "raises"}

RedisError == "ConnectionError"

-----------------------------------------------------------------------------
(* State *)

IdleWorker ==
    [pc |-> "idle", job |-> "", payload |-> None, exc |-> None, caught |-> None,
     handler |-> "none", hooks |-> 0, progress |-> 0, info |-> None, result |-> None,
     redis_open |-> FALSE, temp_dir |-> FALSE, outcome |-> "none",
     writes |-> <<>>, percent |-> None]

NoSubscription ==
    [pc |-> "none", job |-> "", subscribed |-> FALSE, buffer |-> <<>>, frames |-> <<>>,
     delivered |-> <<>>, after_read |-> <<>>, read |-> None, read_at |-> 0,
     redis_open |-> FALSE, torn_down |-> FALSE]

IdleApi == [pc |-> "idle", op |-> "", job |-> "", held |-> None, resp |-> None,
            req |-> None]

IdleClient == [pc |-> "idle", token |-> 0, payload |-> None, resp |-> None,
               redis_open |-> FALSE]

IdleStore ==
    [pc |-> "idle", job_id |-> "", source_name |-> EmptyName, preferred_name |-> None,
     destination |-> EmptyName, stem |-> <<>>, suffix |-> "", counter |-> 0,
     overwrote |-> FALSE]

Init ==
    /\ storage_backend \in StorageBackends
    /\ allowed_domains = {}
    /\ jobs = [j \in JobIds |-> <<>>]
    /\ tokens = <<>>
    /\ queue = {}
    /\ files = [j \in JobIds |-> {}]
    /\ placed = <<>>
    /\ clock = 0
    /\ w = IdleWorker
    /\ execEvents = <<>>
    /\ execs = 0
    /\ faults = 0
    /\ created = {}
    /\ api = IdleApi
    /\ minted = <<>>
    /\ clients = [c \in Clients |-> IdleClient]
    /\ redeemed = [t \in 1..MaxTokens |-> 0]
    /\ sub = NoSubscription
    /\ stores = [p \in StoreCallers |-> IdleStore]

-----------------------------------------------------------------------------
(* job_state.py: JobStateStore as used by the worker *)

\* client.publish(channel, json.dumps({"timestamp": now, **event})): the message
publish_payload(event, now) == event @@ [timestamp |-> now]

\* the number of events the running execution has published on the channel of job_id
PublishedOn(job_id) == IF w.job = job_id THEN Len(execEvents) ELSE 0

\* Deliver reaching the subscriber only while it waits in get_message
Deliver_only_while_polling(s, job_id, message) ==
    IF s.subscribed /\ s.job = job_id /\ s.pc = "loop"
    THEN [s EXCEPT !.buffer = Append(@, message),
                   !.delivered = Append(@, message),
                   !.after_read = Append(@, message)]
    ELSE s

\* Redis hands a published message to the subscriber of that job's channel
Deliver(s, job_id, message) ==
    IF s.subscribed /\ s.job = job_id
    THEN [s EXCEPT !.buffer = Append(@, message),
                   !.delivered = Append(@, message),
                   !.after_read = IF s.pc \in {"subscribed", "none"} THEN @ ELSE Append(@, message)]
    ELSE s

\* the exception enters the except branch of download_media
EnterExcept(wr, message, step) ==
    [wr EXCEPT !.pc = "except", !.exc = Some(message),
               !.caught = Some([message |-> message, step |-> step])]

\* one store write by the worker: hset(key, mapping) and expire(key, ttl)
WorkerWrite(data, okWorker, step) ==
    \E o \in WriteOutcomes :
        /\ o # "ok" => faults < MaxFaults
        /\ faults' = IF o = "ok" THEN faults ELSE faults + 1
        /\ jobs' = IF o = "hset_raises" THEN jobs
                   ELSE [jobs EXCEPT ![w.job] = hset(@, data)]
        /\ w' = [(IF o = "ok" THEN okWorker ELSE EnterExcept(w, RedisError, step))
                     EXCEPT !.writes = IF o = "hset_raises" THEN @ ELSE Append(@, step)]

\* one publish_event by the worker
WorkerPublish(event, okWorker, step) ==
    \E o \in PublishOutcomes :
        /\ o # "ok" => faults < MaxFaults
        /\ faults' = IF o = "ok" THEN faults ELSE faults + 1
        /\ execEvents' = IF o = "ok" THEN Append(execEvents, publish_payload(event, clock))
                         ELSE execEvents
        /\ sub' = IF o = "ok" THEN Deliver(sub, w.job, publish_payload(event, clock)) ELSE sub
        /\ w' = IF o = "ok" THEN okWorker ELSE EnterExcept(w, RedisError, step)

-----------------------------------------------------------------------------
(* tasks.py: download_media, one action per step another process can observe *)

storeVars == <<jobs, faults>>
apiVars == <<created, api, tokens, minted>>
clientVars == <<clients, redeemed>>
cfgVars == <<storage_backend, allowed_domains>>

\* lines 95-100: json.loads, _open_redis, get_storage_backend, mkdtemp; the backend
\* selection is outside the try statement, so its exception leaves the task at once
TaskStart(t) ==
    /\ w.pc \in {"idle", "done"}
    /\ t \in queue
    /\ execs < MaxExecs
    /\ queue' = queue \ {t}
    /\ execs' = execs + 1
    /\ execEvents' = <<>>
    /\ LET storage == get_storage_backend(storage_backend)
           opened == [IdleWorker EXCEPT !.job = t.job_id, !.payload = Some(t.payload),
                                        !.redis_open = TRUE]
       IN w' = IF storage.ok
               THEN [opened EXCEPT !.pc = "set_running", !.temp_dir = TRUE]
               ELSE [opened EXCEPT !.pc = "done", !.outcome = "raised",
                                   !.exc = Some(storage.error)]
    /\ UNCHANGED <<storeVars, apiVars, clientVars, cfgVars, files, placed, clock, sub, stores>>

\* line 123: store.set_status(job_id, JobStatus.RUNNING, 0.0)
SetRunning ==
    /\ w.pc = "set_running"
    /\ WorkerWrite(set_status_data(RUNNING, 0, clock), [w EXCEPT !.pc = "pub_started"], "set_status")
    /\ UNCHANGED <<apiVars, clientVars, cfgVars, queue, files, placed, clock, execEvents, execs, sub, stores>>

\* line 124: store.publish_event(job_id, {"event": "started"}); lines 126-131 build the
\* options and check the url, which create_job always dispatches as a string
PubStarted ==
    /\ w.pc = "pub_started"
    /\ WorkerPublish([event |-> "started"], [w EXCEPT !.pc = "extract"], "publish")
    /\ UNCHANGED <<jobs, apiVars, clientVars, cfgVars, queue, files, placed, clock, execs, stores>>

\* progress_hook, status "downloading": lines 105-106
HookDownloading(percent_str) ==
    /\ w.pc = "extract"
    /\ w.hooks < MaxHooks
    /\ LET progress == _normalize_progress(percent_str) IN
       WorkerWrite(set_status_data(RUNNING, progress, clock),
                   [w EXCEPT !.pc = "hook_pub", !.progress = progress, !.hooks = @ + 1,
                             !.percent = percent_str],
                   "set_status")
    /\ UNCHANGED <<apiVars, clientVars, cfgVars, queue, files, placed, clock, execEvents, execs, sub, stores>>

\* HookPublish publishing 0 in place of the progress that was written
HookPublish_zero_progress ==
    /\ w.pc = "hook_pub"
    /\ WorkerPublish([event |-> "progress", progress |-> 0,
                      downloaded_bytes |-> 512, total_bytes |-> 1024,
                      speed |-> 64, eta |-> 8],
                     [w EXCEPT !.pc = "extract"], "publish")
    /\ UNCHANGED <<jobs, apiVars, clientVars, cfgVars, queue, files, placed, clock, execs, stores>>

\* progress_hook, status "downloading": lines 107-117
HookPublish ==
    /\ w.pc = "hook_pub"
    /\ WorkerPublish([event |-> "progress", progress |-> w.progress,
                      downloaded_bytes |-> 512, total_bytes |-> 1024,
                      speed |-> 64, eta |-> 8],
                     [w EXCEPT !.pc = "extract"], "publish")
    /\ UNCHANGED <<jobs, apiVars, clientVars, cfgVars, queue, files, placed, clock, execs, stores>>

\* progress_hook, status "finished": lines 118-120
HookFinished ==
    /\ w.pc = "extract"
    /\ w.hooks < MaxHooks
    /\ WorkerPublish([event |-> "file_finished", filename |-> OutputName(Val(w.payload))],
                     [w EXCEPT !.hooks = @ + 1], "publish")
    /\ UNCHANGED <<jobs, apiVars, clientVars, cfgVars, queue, files, placed, clock, execs, stores>>

\* lines 133-141: extract_info raises, or returns without a file name, or names a
\* file that does not exist, or succeeds
ExtractEnds(how) ==
    /\ w.pc = "extract"
    /\ w' = CASE how = "raises" -> EnterExcept(w, "DownloadError", "extract")
              [] how = "no_filename" ->
                    EnterExcept(w, "yt-dlp did not provide a filename", "extract")
              [] how = "missing_file" -> EnterExcept(w, "FileNotFoundError", "extract")
              [] how = "ok" -> [w EXCEPT !.pc = "place",
                                         !.info = Some(OutputName(Val(w.payload)))]
    /\ UNCHANGED <<storeVars, apiVars, clientVars, cfgVars, queue, files, placed, clock,
                   execEvents, execs, sub, stores>>

\* lines 143-156 with LocalStorageBackend.store: the move, then the result dict
Place(how) ==
    /\ w.pc = "place"
    /\ LET source == Val(w.info)
           destination == StoreDestination(files[w.job], source, Val(w.payload).filename)
           result == [mime |-> _determine_mime(source),
                      file_name |-> destination,
                      size_bytes |-> 1024,
                      storage_path |-> PathStr(w.job, destination)]
       IN IF how = "ok"
          THEN /\ files' = [files EXCEPT ![w.job] = @ \cup {destination}]
               /\ placed' = Append(placed, StoreCall(w.job, source, Val(w.payload).filename,
                                                     destination))
               /\ w' = [w EXCEPT !.pc = "set_result", !.result = Some(result)]
          ELSE /\ UNCHANGED <<files, placed, stores>>
               /\ w' = EnterExcept(w, "OSError", "place")
    /\ UNCHANGED <<storeVars, apiVars, clientVars, cfgVars, queue, clock, execEvents,
                   execs, sub, stores>>

\* SetResult without the store write: the execution goes on to publish `completed`
SetResult_skipped ==
    /\ w.pc = "set_result"
    /\ w' = [w EXCEPT !.pc = "pub_completed"]
    /\ UNCHANGED <<storeVars, apiVars, clientVars, cfgVars, queue, files, placed, clock,
                   execEvents, execs, sub, stores>>

\* line 158: store.set_result(job_id, result)
SetResult ==
    /\ w.pc = "set_result"
    /\ WorkerWrite(set_result_data(Val(w.result), clock),
                   [w EXCEPT !.pc = "pub_completed"], "set_result")
    /\ UNCHANGED <<apiVars, clientVars, cfgVars, queue, files, placed, clock, execEvents, execs, sub, stores>>

\* the result without its storage_path (line 157)
public_result(result) ==
    [mime |-> result.mime, file_name |-> result.file_name, size_bytes |-> result.size_bytes]

\* lines 159-160: publish "completed" and return
PubCompleted ==
    /\ w.pc = "pub_completed"
    /\ WorkerPublish([event |-> "completed", result |-> public_result(Val(w.result))],
                     [w EXCEPT !.pc = "finally", !.outcome = "returned"], "publish")
    /\ UNCHANGED <<jobs, apiVars, clientVars, cfgVars, queue, files, placed, clock, execs, stores>>

\* lines 161-163: message = str(exc); store.set_error(job_id, message); an exception
\* of set_error replaces the one being handled and goes to the finally clause
ExceptSetError ==
    /\ w.pc = "except"
    /\ \E o \in WriteOutcomes :
        /\ o # "ok" => faults < MaxFaults
        /\ faults' = IF o = "ok" THEN faults ELSE faults + 1
        /\ jobs' = IF o = "hset_raises" THEN jobs
                   ELSE [jobs EXCEPT ![w.job] = hset(@, set_error_data(Val(w.exc), clock))]
        /\ w' = [(IF o = "ok"
                  THEN [w EXCEPT !.pc = "pub_error", !.handler = "running"]
                  ELSE [w EXCEPT !.pc = "finally", !.handler = "failed",
                                 !.exc = Some(RedisError), !.outcome = "raised"])
                     EXCEPT !.writes = IF o = "hset_raises" THEN @ ELSE Append(@, "set_error")]
    /\ UNCHANGED <<apiVars, clientVars, cfgVars, queue, files, placed, clock, execEvents, execs, sub, stores>>

\* PubError without the final raise: the task returns normally after the error event
PubError_swallows ==
    /\ w.pc = "pub_error"
    /\ \E o \in PublishOutcomes :
        /\ o # "ok" => faults < MaxFaults
        /\ faults' = IF o = "ok" THEN faults ELSE faults + 1
        /\ LET message == publish_payload([event |-> "error", message |-> Val(w.exc)], clock) IN
           /\ execEvents' = IF o = "ok" THEN Append(execEvents, message) ELSE execEvents
           /\ sub' = IF o = "ok" THEN Deliver(sub, w.job, message) ELSE sub
        /\ w' = IF o = "ok"
                THEN [w EXCEPT !.pc = "finally", !.handler = "completed", !.outcome = "returned"]
                ELSE [w EXCEPT !.pc = "finally", !.handler = "failed",
                               !.exc = Some(RedisError), !.outcome = "raised"]
    /\ UNCHANGED <<jobs, apiVars, clientVars, cfgVars, queue, files, placed, clock, execs, stores>>

\* lines 164-166: publish "error", log, and raise the exception that was caught
PubError ==
    /\ w.pc = "pub_error"
    /\ \E o \in PublishOutcomes :
        /\ o # "ok" => faults < MaxFaults
        /\ faults' = IF o = "ok" THEN faults ELSE faults + 1
        /\ LET message == publish_payload([event |-> "error", message |-> Val(w.exc)], clock) IN
           /\ execEvents' = IF o = "ok" THEN Append(execEvents, message) ELSE execEvents
           /\ sub' = IF o = "ok" THEN Deliver(sub, w.job, message) ELSE sub
        /\ w' = IF o = "ok"
                THEN [w EXCEPT !.pc = "finally", !.handler = "completed", !.outcome = "raised"]
                ELSE [w EXCEPT !.pc = "finally", !.handler = "failed",
                               !.exc = Some(RedisError), !.outcome = "raised"]
    /\ UNCHANGED <<jobs, apiVars, clientVars, cfgVars, queue, files, placed, clock, execs, stores>>

\* Finally without the rmtree of line 169
Finally_close_only ==
    /\ w.pc = "finally"
    /\ w' = [w EXCEPT !.pc = "done", !.redis_open = FALSE]
    /\ UNCHANGED <<storeVars, apiVars, clientVars, cfgVars, queue, files, placed, clock,
                   execEvents, execs, sub, stores>>

\* lines 167-171: shutil.rmtree(temp_dir, ignore_errors=True), redis_client.close()
Finally ==
    /\ w.pc = "finally"
    /\ w' = [w EXCEPT !.pc = "done", !.temp_dir = FALSE, !.redis_open = FALSE]
    /\ UNCHANGED <<storeVars, apiVars, clientVars, cfgVars, queue, files, placed, clock,
                   execEvents, execs, sub, stores>>

Worker ==
    \/ \E t \in queue : TaskStart(t)
    \/ SetRunning
    \/ PubStarted
    \/ \E percent_str \in PercentStrs : HookDownloading(percent_str)
    \/ HookPublish
    \/ HookFinished
    \/ \E how \in {"raises", "no_filename", "missing_file", "ok"} : ExtractEnds(how)
    \/ \E how \in {"ok", "raises"} : Place(how)
    \/ SetResult
    \/ PubCompleted
    \/ ExceptSetError
    \/ PubError
    \/ Finally

-----------------------------------------------------------------------------
(* The queue and the clock: the environment of the program *)

\* the queue hands the task of a job to a worker again (retry policy or redelivery)
Redeliver ==
    /\ w.pc # "idle"
    /\ execs < MaxExecs
    /\ \A t \in queue : t.job_id # w.job
    /\ queue' = queue \cup {[job_id |-> w.job, payload |-> Val(w.payload)]}
    /\ UNCHANGED <<storeVars, apiVars, clientVars, cfgVars, files, placed, clock, w, execEvents,
                   execs, sub, stores>>

Tick ==
    /\ clock < MaxClock
    /\ clock' = clock + 1
    /\ UNCHANGED <<storeVars, apiVars, clientVars, cfgVars, queue, files, placed, w, execEvents,
                   execs, sub, stores>>

-----------------------------------------------------------------------------
(* main.py: the authenticated endpoints *)

BadSchemeUrl == [scheme |-> "ftp", host |-> "media.example"]
Requests == Payloads \cup {[url |-> BadSchemeUrl, filename |-> None, cookie |-> None]}

\* _validate_url without the allowlist test of lines 37-40
_validate_url_scheme_only(url, allowed) ==
    IF url.scheme \notin {"http", "https"} THEN "Only http(s) URLs are allowed" ELSE "ok"

\* _validate_url: "ok", or the detail of the 400 it raises (hosts are lower case)
_validate_url(url, allowed) ==
    IF url.scheme \notin {"http", "https"} THEN "Only http(s) URLs are allowed"
    ELSE IF allowed # {} /\ url.host \notin allowed THEN "URL domain is not allowed"
    ELSE "ok"

\* lines 55-57: the cookie is masked in the stored request
Sanitized(payload) ==
    IF TruthyStr(payload.cookie) THEN [payload EXCEPT !.cookie = Some("***")] ELSE payload

Respond(code, body) == Some([code |-> code, body |-> body])
\* an HTTPException: the status code and its detail
Refuse(code, detail) == Some([code |-> code, body |-> [detail |-> detail]])

\* create_job up to init_job: validation, uuid4, hset and expire of the new record
CreateJobInit(payload, job_id) ==
    /\ api.pc \in {"idle", "responded"}
    /\ Cardinality(created) < MaxJobs
    /\ job_id \notin created
    /\ LET check == _validate_url(payload.url, allowed_domains) IN
       IF check # "ok"
       THEN /\ api' = [IdleApi EXCEPT !.pc = "responded", !.op = "create",
                                      !.req = Some(payload),
                                      !.resp = Refuse(400, check)]
            /\ UNCHANGED <<jobs, created, faults, stores>>
       ELSE \E o \in WriteOutcomes :
            /\ o # "ok" => faults < MaxFaults
            /\ faults' = IF o = "ok" THEN faults ELSE faults + 1
            /\ created' = created \cup {job_id}
            /\ jobs' = IF o = "hset_raises" THEN jobs
                       ELSE [jobs EXCEPT ![job_id] =
                                hset(@, init_job_data(Sanitized(payload), clock))]
            /\ api' = IF o = "ok"
                      THEN [IdleApi EXCEPT !.pc = "dispatch", !.op = "create",
                                           !.req = Some(payload),
                                           !.job = job_id, !.held = Some(payload)]
                      ELSE [IdleApi EXCEPT !.pc = "responded", !.op = "create",
                                           !.req = Some(payload),
                                           !.job = job_id, !.resp = Refuse(500, RedisError)]
    /\ UNCHANGED <<tokens, minted, clientVars, cfgVars, queue, files, placed, clock, w, execEvents,
                   execs, sub, stores>>

\* create_job lines 60-61: download_media.apply_async, then the 201 response
CreateJobDispatch ==
    /\ api.pc = "dispatch"
    /\ queue' = queue \cup {[job_id |-> api.job, payload |-> Val(api.held)]}
    /\ api' = [api EXCEPT !.pc = "responded", !.held = None,
                          !.resp = Respond(201, [id |-> api.job, status |-> QUEUED])]
    /\ UNCHANGED <<storeVars, created, tokens, minted, clientVars, cfgVars, files, placed, clock, w,
                   execEvents, execs, sub, stores>>

\* get_job_status lines 75-79: the result block of the response
result_payload(job) ==
    IF job.result # None
    THEN Some(public_result(Val(job.result)) @@ [download_url |-> <<"result", job.job_id>>])
    ELSE None

\* the response get_job_status builds from the record it reads
get_job_status(job_id) ==
    LET job == get_job(job_id) IN
    IF job = None THEN Refuse(404, "Job not found")
    ELSE Respond(200, [id |-> Val(job).job_id, status |-> Val(job).status,
                       progress |-> Val(job).progress,
                       result |-> result_payload(Val(job)),
                       error |-> Val(job).error])

GetJobStatus(job_id) ==
    /\ api.pc \in {"idle", "responded"}
    /\ api' = [IdleApi EXCEPT !.pc = "responded", !.op = "status", !.job = job_id,
                              !.resp = get_job_status(job_id)]
    /\ UNCHANGED <<storeVars, created, tokens, minted, clientVars, cfgVars, queue, files, placed,
                   clock, w, execEvents, execs, sub, stores>>

\* get_job_result without the status test of line 100: any record with a result passes
get_job_result_any_status(job_id) ==
    LET job == get_job(job_id) IN
    IF job = None THEN [code |-> 404, detail |-> "Job not found"]
    ELSE IF Val(job).result = None
    THEN [code |-> 409, detail |-> "Job has not finished successfully"]
    ELSE [code |-> 200,
          detail |-> [job_id |-> job_id,
                      file_path |-> Val(Val(job).result).storage_path,
                      file_name |-> Some(Val(Val(job).result).file_name),
                      mime |-> Val(Val(job).result).mime]]

\* get_job_result lines 97-105: what the handler decides from the record it reads:
\* the error response, or the descriptor it goes on to store
get_job_result(job_id) ==
    LET job == get_job(job_id) IN
    IF job = None THEN [code |-> 404, detail |-> "Job not found"]
    ELSE IF Val(job).status # SUCCEEDED \/ Val(job).result = None
    THEN [code |-> 409, detail |-> "Job has not finished successfully"]
    ELSE IF Val(Val(job).result).storage_path = <<>>
    THEN [code |-> 500, detail |-> "Result is missing storage info"]
    ELSE [code |-> 200,
          detail |-> [job_id |-> job_id,
                      file_path |-> Val(Val(job).result).storage_path,
                      file_name |-> Some(Val(Val(job).result).file_name),
                      mime |-> Val(Val(job).result).mime]]

GetJobResultRead(job_id) ==
    /\ api.pc \in {"idle", "responded"}
    /\ Len(minted) < MaxTokens
    /\ LET decision == get_job_result(job_id) IN
       api' = IF decision.code = 200
              THEN [IdleApi EXCEPT !.pc = "mint", !.op = "result", !.job = job_id,
                                   !.held = Some(decision.detail)]
              ELSE [IdleApi EXCEPT !.pc = "responded", !.op = "result", !.job = job_id,
                                   !.resp = Refuse(decision.code, decision.detail)]
    /\ UNCHANGED <<storeVars, created, tokens, minted, clientVars, cfgVars, queue, files, placed,
                   clock, w, execEvents, execs, sub, stores>>

\* TokenJson with the mime left out of the payload
TokenJson_without_mime(descriptor) ==
    << <<"job_id", <<"str", descriptor.job_id>> >>,
       <<"file_path", <<"str", descriptor.file_path>> >>,
       <<"file_name", IF descriptor.file_name = None THEN <<"null">>
                      ELSE <<"str", Val(descriptor.file_name)>> >>,
       <<"mime", <<"null">> >> >>

\* json.dumps of the token payload (store_download_token line 187)
TokenJson(descriptor) ==
    << <<"job_id", <<"str", descriptor.job_id>> >>,
       <<"file_path", <<"str", descriptor.file_path>> >>,
       <<"file_name", IF descriptor.file_name = None THEN <<"null">>
                      ELSE <<"str", Val(descriptor.file_name)>> >>,
       <<"mime", IF descriptor.mime = None THEN <<"null">>
                 ELSE <<"str", Val(descriptor.mime)>> >> >>

\* json.loads of a token payload (pop_download_token line 200)
TokenLoads(raw) ==
    [job_id |-> raw[1][2][2],
     file_path |-> raw[2][2][2],
     file_name |-> IF raw[3][2][1] = "null" THEN None ELSE Some(raw[3][2][2]),
     mime |-> IF raw[4][2][1] = "null" THEN None ELSE Some(raw[4][2][2])]

\* uuid4().hex: a value no earlier call returned
uuid4 == Len(minted) + 1

\* store_download_token (lines 182-189) and the response (lines 114-115); setex may raise
GetJobResultMint ==
    /\ api.pc = "mint"
    /\ \E o \in PublishOutcomes :
        /\ o # "ok" => faults < MaxFaults
        /\ faults' = IF o = "ok" THEN faults ELSE faults + 1
        /\ LET token == uuid4 IN
           IF o = "ok"
           THEN /\ minted' = Append(minted, Val(api.held))
                /\ tokens' = (token :> TokenJson(Val(api.held))) @@ tokens
                /\ api' = [api EXCEPT !.pc = "responded", !.held = None,
                                      !.resp = Respond(200, [url |-> <<"download", token>>,
                                                             expires_in |-> 900])]
           ELSE /\ UNCHANGED <<minted, tokens, stores>>
                /\ api' = [api EXCEPT !.pc = "responded", !.held = None,
                                      !.resp = Refuse(500, RedisError)]
    /\ UNCHANGED <<jobs, created, clientVars, cfgVars, queue, files, placed, clock, w,
                   execEvents, execs, sub, stores>>

Api ==
    \/ \E payload \in Requests, job_id \in JobIds : CreateJobInit(payload, job_id)
    \/ CreateJobDispatch
    \/ \E job_id \in JobIds : GetJobStatus(job_id)
    \/ \E job_id \in JobIds : GetJobResultRead(job_id)
    \/ GetJobResultMint

-----------------------------------------------------------------------------
(* main.py: download_file, and job_state.py: pop_download_token *)

Tokens == 1..MaxTokens

\* pipeline_execute with the delete left out: the key is read and kept
pipeline_get_only(store, token) ==
    [result |-> IF token \in DOMAIN store THEN Some(store[token]) ELSE None,
     store |-> store]

\* pipe.get(key); pipe.delete(key); pipe.execute(): redis-py pipelines are MULTI/EXEC
\* transactions by default, so both commands run as one step of the server
pipeline_execute(store, token) ==
    [result |-> IF token \in DOMAIN store THEN Some(store[token]) ELSE None,
     store |-> [k \in DOMAIN store \ {token} |-> store[k]]]

\* pop_download_token lines 197-200
pop_download_token(raw_payload) ==
    IF raw_payload = None THEN None ELSE Some(TokenLoads(Val(raw_payload)))

\* line 168: the request opens its Redis handle
DownloadStart(c, token) ==
    /\ clients[c].pc \in {"idle", "responded"}
    /\ clients' = [clients EXCEPT ![c] = [IdleClient EXCEPT !.pc = "pop", !.token = token,
                                                           !.redis_open = TRUE]]
    /\ UNCHANGED <<storeVars, apiVars, cfgVars, queue, files, placed, clock, w, execEvents, execs,
                   sub, redeemed, stores>>

\* DownloadPop leaving the key in place when no file is at the stored path
DownloadPop_keeps_token_of_missing_file(c) ==
    /\ clients[c].pc = "pop"
    /\ \E o \in {"ok", "raises_before", "raises_after"} :
        /\ o # "ok" => faults < MaxFaults
        /\ faults' = IF o = "ok" THEN faults ELSE faults + 1
        /\ LET token == clients[c].token
               done == pipeline_execute(tokens, token)
               payload == pop_download_token(done.result)
               missing == /\ payload # None
                          /\ Val(payload).file_path[2] \notin files[Val(payload).file_path[1]]
           IN /\ tokens' = IF o = "raises_before" \/ missing THEN tokens ELSE done.store
              /\ redeemed' = IF o = "ok" /\ payload # None
                             THEN [redeemed EXCEPT ![token] = @ + 1]
                             ELSE redeemed
              /\ clients' = [clients EXCEPT ![c] =
                    IF o # "ok"
                    THEN [@ EXCEPT !.pc = "responded", !.redis_open = FALSE,
                                   !.resp = Refuse(500, RedisError)]
                    ELSE IF payload = None
                    THEN [@ EXCEPT !.pc = "responded", !.redis_open = FALSE,
                                   !.resp = Refuse(404, "Download link expired")]
                    ELSE [@ EXCEPT !.pc = "check", !.redis_open = FALSE,
                                   !.payload = payload]]
    /\ UNCHANGED <<jobs, created, api, minted, cfgVars, queue, files, placed, clock, w,
                   execEvents, execs, sub, stores>>

\* lines 169-175: pop_download_token inside try/finally redis.close(), then the 404.
\* The call may raise before the server ran the transaction or after it (reply lost).
DownloadPop(c) ==
    /\ clients[c].pc = "pop"
    /\ \E o \in {"ok", "raises_before", "raises_after"} :
        /\ o # "ok" => faults < MaxFaults
        /\ faults' = IF o = "ok" THEN faults ELSE faults + 1
        /\ LET token == clients[c].token
               done == pipeline_execute(tokens, token)
               payload == pop_download_token(done.result)
           IN /\ tokens' = IF o = "raises_before" THEN tokens ELSE done.store
              /\ redeemed' = IF o = "ok" /\ payload # None
                             THEN [redeemed EXCEPT ![token] = @ + 1]
                             ELSE redeemed
              /\ clients' = [clients EXCEPT ![c] =
                    IF o # "ok"
                    THEN [@ EXCEPT !.pc = "responded", !.redis_open = FALSE,
                                   !.resp = Refuse(500, RedisError)]
                    ELSE IF payload = None
                    THEN [@ EXCEPT !.pc = "responded", !.redis_open = FALSE,
                                   !.resp = Refuse(404, "Download link expired")]
                    ELSE [@ EXCEPT !.pc = "check", !.redis_open = FALSE,
                                   !.payload = payload]]
    /\ UNCHANGED <<jobs, created, api, minted, cfgVars, queue, files, placed, clock, w,
                   execEvents, execs, sub, stores>>

\* DownloadRespond answering not-found, not gone, when the file is missing
DownloadRespond_not_found(c) ==
    /\ clients[c].pc = "check"
    /\ LET payload == Val(clients[c].payload)
           path == payload.file_path
           filename == IF TruthyName(payload.file_name) THEN Val(payload.file_name)
                       ELSE path[2]
           media_type == IF TruthyStr(payload.mime) THEN payload.mime
                         ELSE IF _determine_mime(filename) # None
                              THEN _determine_mime(filename)
                              ELSE Some("application/octet-stream")
       IN clients' = [clients EXCEPT ![c] =
             IF path[2] \notin files[path[1]]
             THEN [@ EXCEPT !.pc = "responded",
                            !.resp = Refuse(404, "Download link expired")]
             ELSE [@ EXCEPT !.pc = "responded",
                            !.resp = Respond(200, [path |-> path, filename |-> filename,
                                                   media_type |-> Val(media_type)])]]
    /\ UNCHANGED <<storeVars, apiVars, cfgVars, queue, files, placed, clock, w, execEvents,
                   execs, sub, redeemed, stores>>

\* lines 177-183: the existence check and the file response
DownloadRespond(c) ==
    /\ clients[c].pc = "check"
    /\ LET payload == Val(clients[c].payload)
           path == payload.file_path
           filename == IF TruthyName(payload.file_name) THEN Val(payload.file_name)
                       ELSE path[2]
           media_type == IF TruthyStr(payload.mime) THEN payload.mime
                         ELSE IF _determine_mime(filename) # None
                              THEN _determine_mime(filename)
                              ELSE Some("application/octet-stream")
       IN clients' = [clients EXCEPT ![c] =
             IF path[2] \notin files[path[1]]
             THEN [@ EXCEPT !.pc = "responded",
                            !.resp = Refuse(410, "File is no longer available")]
             ELSE [@ EXCEPT !.pc = "responded",
                            !.resp = Respond(200, [path |-> path, filename |-> filename,
                                                   media_type |-> Val(media_type)])]]
    /\ UNCHANGED <<storeVars, apiVars, cfgVars, queue, files, placed, clock, w, execEvents, execs,
                   sub, redeemed, stores>>

\* Redis drops the key when its TTL (signed_url_ttl_seconds) has elapsed
ExpireToken(token) ==
    /\ token \in DOMAIN tokens
    /\ tokens' = [k \in DOMAIN tokens \ {token} |-> tokens[k]]
    /\ UNCHANGED <<storeVars, created, api, minted, clientVars, cfgVars, queue, files, placed,
                   clock, w, execEvents, execs, sub, stores>>

\* the retention policy outside the program deletes a stored artifact
RemoveFile(job_id, name) ==
    /\ name \in files[job_id]
    /\ files' = [files EXCEPT ![job_id] = @ \ {name}]
    /\ UNCHANGED <<placed, storeVars, apiVars, clientVars, cfgVars, queue, clock, w, execEvents,
                   execs, sub, stores>>

Download ==
    \/ \E c \in Clients, token \in Tokens : DownloadStart(c, token)
    \/ \E c \in Clients : DownloadPop(c)
    \/ \E c \in Clients : DownloadRespond(c)
    \/ \E token \in Tokens : ExpireToken(token)
    \/ \E job_id \in JobIds : \E name \in files[job_id] : RemoveFile(job_id, name)

-----------------------------------------------------------------------------
(* main.py: stream_job_events and _event_stream *)

\* lines 150 and 119-122: the handle, pubsub() and subscribe(channel)
StreamOpen(job_id) ==
    /\ sub.pc = "none"
    /\ sub' = [NoSubscription EXCEPT !.pc = "subscribed", !.job = job_id,
                                     !.subscribed = TRUE, !.redis_open = TRUE]
    /\ UNCHANGED <<storeVars, apiVars, clientVars, cfgVars, queue, files, placed, clock, w,
                   execEvents, execs, stores>>

\* lines 124-127: the record is read and, if there is one, the snapshot frame is yielded;
\* get_job is outside the try statement, so when it raises only the generator of
\* stream_job_events cleans up (it closes the handle)
StreamSnapshot ==
    /\ sub.pc = "subscribed"
    /\ \E o \in PublishOutcomes :
        /\ o # "ok" => faults < MaxFaults
        /\ faults' = IF o = "ok" THEN faults ELSE faults + 1
        /\ LET job == get_job(sub.job) IN
           sub' = IF o # "ok"
                  THEN [sub EXCEPT !.pc = "closed", !.subscribed = FALSE,
                                   !.redis_open = FALSE, !.buffer = <<>>]
                  ELSE IF job # None
                  THEN [sub EXCEPT !.pc = "yield_snapshot", !.read = job,
                                   !.read_at = PublishedOn(sub.job),
                                   !.frames = Append(@, [event |-> "snapshot",
                                                         data |-> to_dict(Val(job))])]
                  ELSE [sub EXCEPT !.pc = "loop", !.read_at = PublishedOn(sub.job)]
    /\ UNCHANGED <<jobs, apiVars, clientVars, cfgVars, queue, files, placed, clock, w,
                   execEvents, execs, stores>>

\* the consumer asks for the next frame: the generator runs on from its yield
\* (after a message, through asyncio.sleep) to the head of the loop
StreamResume ==
    /\ sub.pc \in {"yield_snapshot", "yield_message"}
    /\ sub' = [sub EXCEPT !.pc = "loop"]
    /\ UNCHANGED <<storeVars, apiVars, clientVars, cfgVars, queue, files, placed, clock, w,
                   execEvents, execs, stores>>

\* StreamGetMessage taking the newest pending message instead of the oldest
StreamGetMessage_newest_first ==
    /\ sub.pc = "loop"
    /\ sub.buffer # <<>>
    /\ sub' = [sub EXCEPT !.pc = "yield_message",
                          !.buffer = SubSeq(@, 1, Len(@) - 1),
                          !.frames = Append(@, [data |-> sub.buffer[Len(sub.buffer)]])]
    /\ UNCHANGED <<storeVars, apiVars, clientVars, cfgVars, queue, files, placed, clock, w,
                   execEvents, execs, stores>>

\* lines 133-135: get_message returns the oldest pending message, which is yielded as
\* it is (a timeout with nothing pending changes nothing and is left out); when it
\* raises, the finally clause of lines 137-139 runs
StreamGetMessage ==
    /\ sub.pc = "loop"
    /\ sub.buffer # <<>>
    /\ \E o \in PublishOutcomes :
        /\ o # "ok" => faults < MaxFaults
        /\ faults' = IF o = "ok" THEN faults ELSE faults + 1
        /\ sub' = IF o = "ok"
                  THEN [sub EXCEPT !.pc = "yield_message",
                                   !.buffer = Tail(@),
                                   !.frames = Append(@, [data |-> Head(sub.buffer)])]
                  ELSE [sub EXCEPT !.pc = "closed", !.subscribed = FALSE,
                                   !.torn_down = TRUE, !.redis_open = FALSE,
                                   !.buffer = <<>>]
    /\ UNCHANGED <<jobs, apiVars, clientVars, cfgVars, queue, files, placed, clock, w,
                   execEvents, execs, stores>>

\* lines 131-132 and 137-139: the client is gone, the loop breaks and the finally
\* clause unsubscribes and closes; the generator of stream_job_events closes the handle
StreamDisconnect ==
    /\ sub.pc = "loop"
    /\ sub' = [sub EXCEPT !.pc = "closed", !.subscribed = FALSE, !.torn_down = TRUE,
                          !.redis_open = FALSE, !.buffer = <<>>]
    /\ UNCHANGED <<storeVars, apiVars, clientVars, cfgVars, queue, files, placed, clock, w,
                   execEvents, execs, stores>>

\* the consumer closes the stream while the generator is suspended at a yield: the
\* yield of a message is inside the try statement, the yield of the snapshot is not
StreamClose ==
    /\ sub.pc \in {"yield_snapshot", "yield_message"}
    /\ sub' = [sub EXCEPT !.pc = "closed", !.subscribed = FALSE,
                          !.torn_down = (sub.pc = "yield_message"),
                          !.redis_open = FALSE, !.buffer = <<>>]
    /\ UNCHANGED <<storeVars, apiVars, clientVars, cfgVars, queue, files, placed, clock, w,
                   execEvents, execs, stores>>

Stream ==
    \/ \E job_id \in JobIds : StreamOpen(job_id)
    \/ StreamSnapshot
    \/ StreamResume
    \/ StreamGetMessage
    \/ StreamDisconnect
    \/ StreamClose

-----------------------------------------------------------------------------
(* The worker with the queue and the authenticated endpoints *)

Next == Worker \/ Redeliver \/ Api

Spec == Init /\ [][Next]_vars

-----------------------------------------------------------------------------
(* The event stream of a job beside the worker that publishes on its channel *)

NextStream ==
    \/ Worker
    \/ Tick
    \/ \E payload \in Payloads, job_id \in JobIds : CreateJobInit(payload, job_id)
    \/ CreateJobDispatch
    \/ Stream

SpecStream == Init /\ [][NextStream]_vars

-----------------------------------------------------------------------------
(* create_job under an empty and a non-empty allowlist, with the worker it dispatches to *)

\* Settings.allowed_domains after _split_domains: lower-case host names
AllowLists == {{}, {"media.example"}}

OtherHostUrl == [scheme |-> "https", host |-> "other.example"]
PlainHttpUrl == [scheme |-> "http", host |-> "media.example"]
CreateRequests ==
    Requests \cup {[url |-> OtherHostUrl, filename |-> None, cookie |-> None],
                   [url |-> PlainHttpUrl, filename |-> None, cookie |-> None]}

InitCreate ==
    /\ storage_backend = "local"
    /\ allowed_domains \in AllowLists
    /\ jobs = [j \in JobIds |-> <<>>]
    /\ tokens = <<>>
    /\ queue = {}
    /\ files = [j \in JobIds |-> {}]
    /\ placed = <<>>
    /\ clock = 0
    /\ w = IdleWorker
    /\ execEvents = <<>>
    /\ execs = 0
    /\ faults = 0
    /\ created = {}
    /\ api = IdleApi
    /\ minted = <<>>
    /\ clients = [c \in Clients |-> IdleClient]
    /\ redeemed = [t \in 1..MaxTokens |-> 0]
    /\ sub = NoSubscription
    /\ stores = [p \in StoreCallers |-> IdleStore]

NextCreate ==
    \/ \E payload \in CreateRequests, job_id \in JobIds : CreateJobInit(payload, job_id)
    \/ CreateJobDispatch
    \/ \E job_id \in JobIds : GetJobStatus(job_id)
    \/ Worker

SpecCreate == InitCreate /\ [][NextCreate]_vars

-----------------------------------------------------------------------------

(* LocalStorageBackend.store called again and again on one storage root, on one day *)

MaxStores == 4     \* calls of store

\* source_path.name and preferred_name of a call; "video-1.mp4" is also the first
\* name the loop generates for "video.mp4"
SourceNames == {DefaultName, VideoName}
PreferredNames == {None, Some(VideoName), Some(FileName(<<"video", "1">>, ".mp4"))}

\* LocalStorageBackend.store: the destination is chosen and the source moved to it
Store(job_id, source_name, preferred_name) ==
    /\ Len(placed) < MaxStores
    /\ LET destination == StoreDestination(files[job_id], source_name, preferred_name) IN
       /\ files' = [files EXCEPT ![job_id] = @ \cup {destination}]
       /\ placed' = Append(placed, StoreCall(job_id, source_name, preferred_name, destination))
    /\ UNCHANGED <<storeVars, apiVars, clientVars, cfgVars, queue, clock, w, execEvents,
                   execs, sub, stores>>

NextStore ==
    \E job_id \in JobIds, source_name \in SourceNames, preferred_name \in PreferredNames :
        Store(job_id, source_name, preferred_name)

SpecStore == InitCreate /\ [][NextStore]_vars

-----------------------------------------------------------------------------
(* LocalStorageBackend.store called by two workers at once: every existence check and
   the move are steps of their own *)

\* lines 55-57: the target directory, file_name and the first destination
StoreBegin(p, job_id, source_name, preferred_name) ==
    /\ stores[p].pc = "idle"
    /\ stores' = [stores EXCEPT ![p] =
          [IdleStore EXCEPT !.pc = "exists", !.job_id = job_id,
                            !.source_name = source_name,
                            !.preferred_name = preferred_name,
                            !.destination = IF TruthyName(preferred_name)
                                            THEN Val(preferred_name) ELSE source_name]]
    /\ UNCHANGED <<storeVars, apiVars, clientVars, cfgVars, queue, files, placed, clock, w,
                   execEvents, execs, sub>>

\* lines 59-62: `if destination.exists()`, then stem, suffix and counter = 1
StoreExists(p) ==
    /\ stores[p].pc = "exists"
    /\ stores' = [stores EXCEPT ![p] =
          IF @.destination \in files[@.job_id]
          THEN [@ EXCEPT !.pc = "loop", !.stem = stores[p].destination.stem,
                         !.suffix = stores[p].destination.suffix, !.counter = 1]
          ELSE [@ EXCEPT !.pc = "move"]]
    /\ UNCHANGED <<storeVars, apiVars, clientVars, cfgVars, queue, files, placed, clock, w,
                   execEvents, execs, sub>>

\* lines 63-65: one test of `while destination.exists()` and, if it holds, the body
StoreLoop(p) ==
    /\ stores[p].pc = "loop"
    /\ stores' = [stores EXCEPT ![p] =
          IF @.destination \in files[@.job_id]
          THEN [@ EXCEPT !.destination = FileName(Append(stores[p].stem,
                                                         ToString(stores[p].counter)),
                                                  stores[p].suffix),
                         !.counter = @ + 1]
          ELSE [@ EXCEPT !.pc = "move"]]
    /\ UNCHANGED <<storeVars, apiVars, clientVars, cfgVars, queue, files, placed, clock, w,
                   execEvents, execs, sub>>

\* lines 66-73: shutil.move(source, destination) replaces a file that is at the
\* destination by now, and the StoredFile names the destination
StoreMove(p) ==
    /\ stores[p].pc = "move"
    /\ LET call == stores[p] IN
       /\ files' = [files EXCEPT ![call.job_id] = @ \cup {call.destination}]
       /\ placed' = Append(placed, StoreCall(call.job_id, call.source_name,
                                             call.preferred_name, call.destination))
       /\ stores' = [stores EXCEPT ![p] =
             [@ EXCEPT !.pc = "done",
                       !.overwrote = call.destination \in files[call.job_id]]]
    /\ UNCHANGED <<storeVars, apiVars, clientVars, cfgVars, queue, clock, w, execEvents,
                   execs, sub>>

NextStoreRace ==
    \/ \E p \in StoreCallers, job_id \in JobIds, source_name \in SourceNames,
          preferred_name \in PreferredNames :
            StoreBegin(p, job_id, source_name, preferred_name)
    \/ \E p \in StoreCallers : StoreExists(p)
    \/ \E p \in StoreCallers : StoreLoop(p)
    \/ \E p \in StoreCallers : StoreMove(p)

SpecStoreRace == InitCreate /\ [][NextStoreRace]_vars

-----------------------------------------------------------------------------

(* download_media with progress notifications of every shape *)

\* data["_percent_str"]: absent, "", "45%", "150%", "-5%", "abc", "4%5" and "nan%"
\* beside the strings of PercentStrs
NormalizeInputs ==
    PercentStrs \cup
    {Some(<<>>),
     Some(<<"4", "5", "%">>),
     Some(<<"-", "5", "%">>),
     Some(<<"a", "b", "c">>),
     Some(<<"4", "%", "5">>),
     Some(<<"n", "a", "n", "%">>)}

NextProgress ==
    \/ \E payload \in Payloads, job_id \in JobIds : CreateJobInit(payload, job_id)
    \/ CreateJobDispatch
    \/ Worker
    \/ \E percent_str \in NormalizeInputs : HookDownloading(percent_str)

SpecProgress == InitCreate /\ [][NextProgress]_vars

-----------------------------------------------------------------------------

(* The token vault: result requests and downloads for a job that has succeeded *)

\* the record of a job after create_job and one successful execution of download_media
SucceededRecord(job_id, payload) ==
    LET destination == StoreDestination({}, OutputName(payload), payload.filename)
        result == [mime |-> _determine_mime(OutputName(payload)),
                   file_name |-> destination,
                   size_bytes |-> 1024,
                   storage_path |-> PathStr(job_id, destination)]
    IN hset(hset(hset(<<>>, init_job_data(Sanitized(payload), 0)),
                  set_status_data(RUNNING, 0, 0)),
             set_result_data(result, 0))

InitToken ==
    /\ storage_backend = "local"
    /\ allowed_domains = {}
    /\ \E payload \in Payloads :
        /\ jobs = [j \in JobIds |-> IF j = "j1" THEN SucceededRecord(j, payload) ELSE <<>>]
        /\ files = [j \in JobIds |-> IF j = "j1"
                                     THEN {StoreDestination({}, OutputName(payload), payload.filename)}
                                     ELSE {}]
    /\ placed = <<>>
    /\ tokens = <<>>
    /\ queue = {}
    /\ clock = 0
    /\ w = IdleWorker
    /\ execEvents = <<>>
    /\ execs = 0
    /\ faults = 0
    /\ created = {"j1"}
    /\ api = IdleApi
    /\ minted = <<>>
    /\ clients = [c \in Clients |-> IdleClient]
    /\ redeemed = [t \in Tokens |-> 0]
    /\ sub = NoSubscription
    /\ stores = [p \in StoreCallers |-> IdleStore]

NextToken ==
    \/ \E job_id \in JobIds : GetJobResultRead(job_id)
    \/ GetJobResultMint
    \/ Download

SpecToken == InitToken /\ [][NextToken]_vars

-----------------------------------------------------------------------------
(* Properties of the job record store and the worker *)

Terminal == {SUCCEEDED, FAILED}

\* the status a reader finds in a stored hash, "absent" when there is no record
StatusOf(hash) == IF DOMAIN hash = {} THEN "absent" ELSE Val(from_redis("", hash)).status

HasResult(hash) == DOMAIN hash # {} /\ Val(from_redis("", hash)).result # None
HasError(hash) == DOMAIN hash # {} /\ Val(from_redis("", hash)).error # None

\* C3: once the status of a job record is Succeeded or Failed, no later write of
\* download_media changes it (no edge leaves a terminal status).
C3_TerminalStatusIsFinal ==
    [][\A j \in JobIds :
          StatusOf(jobs[j]) \in Terminal => StatusOf(jobs'[j]) = StatusOf(jobs[j])]_vars

\* C4: in every reachable state every job record has a result iff its status is
\* Succeeded and an error iff its status is Failed.
C4_OutcomeFieldsMatchStatus ==
    \A j \in JobIds :
        DOMAIN jobs[j] # {} =>
            /\ HasResult(jobs[j]) <=> StatusOf(jobs[j]) = SUCCEEDED
            /\ HasError(jobs[j]) <=> StatusOf(jobs[j]) = FAILED

\* C5: right after set_result returns the record is Succeeded with progress 100 and no
\* error, and right after set_error returns it is Failed with no result, whatever the
\* record held before.
C5_TerminalWriteLeavesOneOutcome ==
    [][/\ (w.pc = "set_result" /\ w'.pc = "pub_completed") =>
            /\ StatusOf(jobs'[w.job]) = SUCCEEDED
            /\ Val(from_redis(w.job, jobs'[w.job])).progress = 100000
            /\ ~HasError(jobs'[w.job])
       /\ (w.pc = "except" /\ w'.pc = "pub_error") =>
            /\ StatusOf(jobs'[w.job]) = FAILED
            /\ ~HasResult(jobs'[w.job])]_vars

\* the except branch caught an exception of the extraction or of the placement
CaughtInExtractionOrPlacement ==
    w.caught # None /\ Val(w.caught).step \in {"extract", "place"}

ErrorEvents == SelectSeq(execEvents, LAMBDA e : e.event = "error")

\* the record of the running job is Failed with the message of the caught exception
FailedWithCaughtMessage ==
    /\ StatusOf(jobs[w.job]) = FAILED
    /\ Val(from_redis(w.job, jobs[w.job])).error = Some(Val(w.caught).message)

\* exactly one error event, the last event of the execution, carries the message
OneErrorEventWithCaughtMessage ==
    /\ Len(ErrorEvents) = 1
    /\ execEvents[Len(execEvents)].event = "error"
    /\ execEvents[Len(execEvents)].message = Val(w.caught).message

C7_EndedExecutionIsTerminal ==
    w.pc = "done" => StatusOf(jobs[w.job]) \in Terminal

\* the step is the read of get_job_result
ResultReadStep == api.pc \in {"idle", "responded"} /\ api'.op = "result" /\ api' # api

\* C9: get_job_result goes on to store a token exactly when the record it reads is
\* Succeeded with a result and a storage path; it answers 404 for an unknown job and
\* 409 for a Queued, Running or Failed one; no failing path creates a token; every
\* token stored is new and is the one the 200 response carries.
C9_TokenOnlyForSucceededRecord ==
    [][/\ ResultReadStep =>
            LET hash == jobs[api'.job] IN
            /\ tokens' = tokens /\ minted' = minted
            /\ api'.pc = "mint" <=>
                  /\ StatusOf(hash) = SUCCEEDED
                  /\ HasResult(hash)
                  /\ Val(Val(from_redis("", hash)).result).storage_path # <<>>
            /\ StatusOf(hash) = "absent" => (api'.resp # None /\ Val(api'.resp).code = 404)
            /\ StatusOf(hash) \in {QUEUED, RUNNING, FAILED} =>
                  (api'.resp # None /\ Val(api'.resp).code = 409)
       /\ (tokens' # tokens \/ minted' # minted) =>
            /\ api.pc = "mint" /\ api'.pc = "responded"
            /\ Val(api'.resp).code = 200
            /\ Len(minted') = Len(minted) + 1
            /\ LET token == Val(api'.resp).body.url[2] IN
               /\ token \notin 1..Len(minted)
               /\ token \notin DOMAIN tokens
               /\ DOMAIN tokens' = DOMAIN tokens \cup {token}
               /\ minted'[token] = Val(api.held)]_vars

\* two result requests have each minted a token
C9_Witness ==
    /\ Len(minted) = 2
    /\ api.op = "result" /\ api.pc = "responded"
    /\ Val(api.resp).code = 200
    /\ Val(api.resp).body.url[2] = 2

\* C10: a status response carries a result block with its download_url only if the
\* status it reports is Succeeded.
C10_DownloadUrlOnlyWhenSucceeded ==
    (api.op = "status" /\ api.resp # None /\ Val(api.resp).code = 200) =>
        (Val(api.resp).body.result # None => Val(api.resp).body.status = SUCCEEDED)

-----------------------------------------------------------------------------
(* Properties of the token vault *)

\* C1: however the download requests for a token interleave, at most one
\* pop_download_token returns its descriptor; every other one returns not-found.
C1_AtMostOneRedemption ==
    \A t \in Tokens :
        /\ redeemed[t] <= 1
        /\ Cardinality({c \in Clients : clients[c].token = t /\ clients[c].payload # None}) <= 1

\* two requests for one token are in flight and one of them has consumed it
C1_Witness ==
    /\ clients["c1"].token = 1 /\ clients["c2"].token = 1
    /\ clients["c1"].pc = "check"
    /\ clients["c2"].pc = "pop"
    /\ redeemed[1] = 1

\* the step is a pop_download_token of client c that returns (does not raise)
PopStep(c) ==
    /\ clients[c].pc = "pop"
    /\ clients'[c].pc # "pop"
    /\ ~(clients'[c].resp # None /\ Val(clients'[c].resp).code = 500)

\* C2: a pop of a stored, unexpired, unconsumed token returns exactly the descriptor
\* that store_download_token was given, and every pop after it returns not-found.
C2_TokenRoundTrip ==
    [][\A c \in Clients :
          PopStep(c) =>
              LET token == clients[c].token IN
              /\ token \in DOMAIN tokens => clients'[c].payload = Some(minted[token])
              /\ redeemed[token] >= 1 =>
                    /\ clients'[c].payload = None
                    /\ Val(clients'[c].resp).code = 404]_vars

\* a token was redeemed once and a later request for it was answered not-found
C2_Witness ==
    /\ clients["c1"].token = 1 /\ clients["c1"].pc = "responded"
    /\ Val(clients["c1"].resp).code = 200
    /\ clients["c2"].token = 1 /\ clients["c2"].pc = "responded"
    /\ Val(clients["c2"].resp).code = 404
    /\ redeemed[1] = 1

-----------------------------------------------------------------------------
(* Properties of the event stream *)

StreamLive == sub.pc \in {"yield_snapshot", "loop", "yield_message"}

SnapshotFrames == SelectSeq(sub.frames, LAMBDA f : "event" \in DOMAIN f)
MessageFrames == SelectSeq(sub.frames, LAMBDA f : "event" \notin DOMAIN f)
MessageData == [i \in 1..Len(MessageFrames) |-> MessageFrames[i].data]

IsSuffix(a, b) == Len(a) <= Len(b) /\ SubSeq(b, Len(b) - Len(a) + 1, Len(b)) = a

\* the frames forwarded so far and the messages still pending are, in order, exactly
\* the messages published on the channel since the subscription, and those are the
\* latest events of the execution that publishes on it
ForwardsEveryEventInOrder ==
    /\ MessageData \o sub.buffer = sub.delivered
    /\ sub.job = w.job => IsSuffix(sub.delivered, execEvents)

\* C8 as stated: for every job id the stream emits exactly one snapshot frame, as its
\* first frame, and then forwards every published event verbatim in publish order.
C8_SnapshotAlwaysFirst ==
    (sub.pc \in {"loop", "yield_message"}) =>
        /\ Len(SnapshotFrames) = 1
        /\ "event" \in DOMAIN sub.frames[1]
        /\ ForwardsEveryEventInOrder

\* the step is the read of the record in _event_stream, when get_job returns
SnapshotStep == sub.pc = "subscribed" /\ sub'.pc \notin {"subscribed", "closed"}

\* C8 amended: when a record of the job exists at the time of the read, the stream
\* emits exactly one snapshot frame, built from that record, as its first frame; when
\* none exists it emits no snapshot frame; in both cases it then forwards every event
\* published on the channel verbatim and in publish order.
C8_SnapshotWhenRecordExists ==
    /\ [](StreamLive =>
            /\ Len(SnapshotFrames) = (IF sub.read # None THEN 1 ELSE 0)
            /\ sub.read # None => "event" \in DOMAIN sub.frames[1]
            /\ ForwardsEveryEventInOrder)
    /\ [][SnapshotStep =>
            LET hash == jobs[sub.job] IN
            IF DOMAIN hash = {}
            THEN sub'.frames = <<>> /\ sub'.read = None
            ELSE /\ Len(sub'.frames) = 1
                 /\ sub'.frames[1].event = "snapshot"
                 /\ sub'.frames[1].data.id = sub.job
                 /\ sub'.frames[1].data.status = hash.status
                 /\ sub'.frames[1].data.progress = ParseFloat(hash.progress)
                 /\ (sub'.frames[1].data.result # None) <=> ("result" \in DOMAIN hash)
                 /\ (sub'.frames[1].data.error # None) <=> ("error" \in DOMAIN hash)]_vars

\* a stream that began with the snapshot of an existing record has forwarded two
\* events and has another pending
C8_Witness ==
    /\ StreamLive
    /\ sub.read # None
    /\ Len(sub.frames) >= 3
    /\ sub.frames[1].event = "snapshot"
    /\ sub.buffer # <<>>

-----------------------------------------------------------------------------
\* the events the running execution has published on the subscriber's channel since
\* the subscriber read the record
EventsAfterRead == SubSeq(execEvents, sub.read_at + 1, Len(execEvents))

\* C22: while a subscriber streams the job a worker publishes on, every event
\* published after the subscriber read the record is, in publish order, among the
\* frames forwarded or the messages pending in its subscription: none is lost
\* (events published between subscribe and read are delivered as well).
C22_NoEventLostAfterSnapshot ==
    (StreamLive /\ sub.job = w.job) =>
        /\ sub.read_at <= Len(execEvents)
        /\ IsSuffix(EventsAfterRead, MessageData \o sub.buffer)

\* the subscriber read the record after `started`, and `completed` was published
\* while it was suspended at the snapshot frame; the snapshot is still the last frame
C22_Witness ==
    /\ sub.pc = "yield_snapshot"
    /\ sub.job = w.job
    /\ sub.read_at >= 1
    /\ Len(EventsAfterRead) >= 1
    /\ execEvents[Len(execEvents)].event = "completed"

(* Properties of download_file *)

\* the step is the existence check and response of client c
CheckStep(c) == clients[c].pc = "check" /\ clients'[c].pc = "responded"

\* C11: a download request whose token lookup returns is answered not-found exactly
\* when no key is stored under the token, and a key is stored exactly for a token that
\* was issued and has neither expired nor been consumed (a key that is gone never comes
\* back); a request whose token resolved is answered gone exactly when no file is at
\* the stored path, and otherwise serves that path with the stored name and mime.
C11_DownloadOutcomes ==
    [][/\ \A t \in Tokens :
            /\ t \in DOMAIN tokens => (t <= Len(minted) /\ redeemed[t] = 0)
            /\ (t <= Len(minted) /\ t \notin DOMAIN tokens) => t \notin DOMAIN tokens'
       /\ \A c \in Clients :
            /\ PopStep(c) =>
                  /\ (clients'[c].resp # None /\ Val(clients'[c].resp).code = 404)
                        <=> clients[c].token \notin DOMAIN tokens
                  /\ clients'[c].resp = None <=> clients'[c].pc = "check"
            /\ CheckStep(c) =>
                  LET stored == minted[clients[c].token]
                      r == Val(clients'[c].resp)
                  IN /\ r.code \in {200, 410}
                     /\ r.code = 410 <=> stored.file_path[2] \notin files[stored.file_path[1]]
                     /\ r.code = 200 =>
                           /\ r.body.path = stored.file_path
                           /\ stored.file_name # None => r.body.filename = Val(stored.file_name)
                           /\ stored.mime # None => r.body.media_type = Val(stored.mime)]_vars

\* one token was served, and another one resolved after its file had been removed
C11_Witness ==
    /\ clients["c1"].token = 1 /\ clients["c1"].pc = "responded"
    /\ Val(clients["c1"].resp).code = 200
    /\ clients["c2"].token = 2 /\ clients["c2"].pc = "responded"
    /\ Val(clients["c2"].resp).code = 410

-----------------------------------------------------------------------------
(* Properties of create_job *)

\* the step is create_job from the request to its 400 or to the end of init_job
CreateStep == api.pc \in {"idle", "responded"} /\ api'.op = "create" /\ api' # api

\* the URL has a scheme other than http/https, or a host outside a non-empty allowlist
Disallowed(url) ==
    \/ url.scheme \notin {"http", "https"}
    \/ allowed_domains # {} /\ url.host \notin allowed_domains

\* C12: create_job answers a request with a disallowed URL with 400 and leaves the job
\* records and the queue as they were; it calls init_job for every other request, so
\* with an empty allowlist for every http(s) URL; no record and no queued task belongs
\* to a disallowed URL.
C12_RejectedBeforeAnyRecord ==
    [][/\ CreateStep =>
            LET url == Val(api'.req).url IN
            /\ Disallowed(url) =>
                  /\ api'.resp # None /\ Val(api'.resp).code = 400
                  /\ api'.pc = "responded"
                  /\ jobs' = jobs /\ queue' = queue /\ created' = created
            /\ ~Disallowed(url) =>
                  /\ created' # created
                  /\ api'.resp # None => Val(api'.resp).code # 400
       /\ \A t \in queue : ~Disallowed(t.payload.url)
       /\ \A j \in JobIds : DOMAIN jobs[j] # {} => ~Disallowed(jobs[j].request.url)
       /\ queue' # queue /\ api.pc = "dispatch" => ~Disallowed(Val(api.req).url)]_vars

\* under a non-empty allowlist a request for another host was refused, and there is
\* no record and no task
C12_Witness ==
    /\ allowed_domains # {}
    /\ api.op = "create" /\ api.pc = "responded"
    /\ Val(api.req).url = OtherHostUrl
    /\ Val(api.resp).code = 400
    /\ \A j \in JobIds : DOMAIN jobs[j] = {}
    /\ queue = {}

\* the record of job j was written by init_job
Initialised(j) == "created_at" \in DOMAIN jobs[j]

\* C15: when init_job completes, the record get_job reads is Queued with progress 0,
\* no result and no error, and the task is not dispatched yet; every queued task and
\* every execution belongs to an initialised record, and only init_job writes to a
\* job id that has no record.
C15_QueuedAfterInit ==
    [][/\ (CreateStep /\ api'.pc = "dispatch") =>
            LET job == Val(from_redis(api'.job, jobs'[api'.job])) IN
            /\ job.status = QUEUED
            /\ job.progress = 0
            /\ job.result = None
            /\ job.error = None
            /\ queue' = queue
       /\ \A t \in queue : Initialised(t.job_id)
       /\ w.pc # "idle" => Initialised(w.job)
       /\ \A j \in JobIds :
            (jobs'[j] # jobs[j] /\ ~Initialised(j)) => (CreateStep /\ api'.job = j)]_vars

\* init_job has completed and the task is not dispatched yet
C15_Witness ==
    /\ api.op = "create" /\ api.pc = "dispatch"
    /\ StatusOf(jobs[api.job]) = QUEUED
    /\ queue = {}
    /\ w.pc = "idle"

-----------------------------------------------------------------------------
(* Properties of LocalStorageBackend.store *)

\* the name a call asks for: preferred_name or source_path.name
RequestedName(call) ==
    IF TruthyName(call.preferred_name) THEN Val(call.preferred_name) ELSE call.source_name

\* f"{stem}-{counter}{suffix}"
Suffixed(name, counter) == FileName(Append(name.stem, ToString(counter)), name.suffix)

\* the calls before call i for the same job (the same target directory)
EarlierCalls(i) == {j \in 1..(i - 1) : placed[j].job_id = placed[i].job_id}

\* C13: every call of store returns a name no earlier call for the job returned; the
\* name is the requested one or the requested one with -counter before the extension;
\* when all earlier calls for the job requested the same name, the calls return name,
\* name-1, name-2, ... in this order; every call adds a file and replaces none.
C13_DistinctSuffixedNames ==
    /\ \A i \in 1..Len(placed) :
        LET name == RequestedName(placed[i])
            n == Cardinality(EarlierCalls(i))
        IN /\ \A j \in EarlierCalls(i) : placed[j].file_name # placed[i].file_name
           /\ \/ placed[i].file_name = name
              \/ \E k \in 1..MaxStores : placed[i].file_name = Suffixed(name, k)
           /\ (\A j \in EarlierCalls(i) : RequestedName(placed[j]) = name) =>
                 placed[i].file_name = IF n = 0 THEN name ELSE Suffixed(name, n)
    /\ \A job_id \in JobIds :
        /\ files[job_id] = {placed[i].file_name : i \in {k \in 1..Len(placed) : placed[k].job_id = job_id}}
        /\ Cardinality(files[job_id]) = Cardinality({k \in 1..Len(placed) : placed[k].job_id = job_id})

\* three calls for one job with the same preferred name returned name, name-1, name-2
C13_Witness ==
    /\ Len(placed) = 3
    /\ \A i \in 1..3 : placed[i].job_id = "j1" /\ placed[i].preferred_name = Some(VideoName)
    /\ placed[1].file_name = VideoName
    /\ placed[2].file_name = Suffixed(VideoName, 1)
    /\ placed[3].file_name = Suffixed(VideoName, 2)

-----------------------------------------------------------------------------
(* Properties of _normalize_progress and of the progress hook *)

\* a string without the percent sign it ends with
StripTrailingPercent(s) ==
    IF s # <<>> /\ s[Len(s)] = "%" THEN SubSeq(s, 1, Len(s) - 1) ELSE s

\* the numeric value of a percentage string: surrounding blanks and one trailing
\* percent sign are dropped and the rest is read as a decimal number; None when the
\* input is absent, empty or not a number
PercentageValue(value) ==
    IF ~TruthySeq(value) THEN None
    ELSE ParseFloatStr(Strip(StripTrailingPercent(Strip(Val(value)))))

Clamp(v) == IF v < 0 THEN 0 ELSE IF v > 100000 THEN 100000 ELSE v

\* C14: for every _percent_str the normalized progress is within [0, 100]; it is the
\* numeric value of the percentage string clamped into [0, 100], and 0 when the input
\* is absent, empty or unparsable.
C14_NormalizedProgress ==
    w.pc = "hook_pub" =>
        /\ 0 <= w.progress /\ w.progress <= 100000
        /\ w.progress = IF PercentageValue(w.percent) = None THEN 0
                        ELSE Clamp(Val(PercentageValue(w.percent)))

\* the step is the store write of a `downloading` notification that returns
DownloadingStep == w.pc = "extract" /\ w'.pc = "hook_pub"
\* the step is the publish of a `downloading` notification that returns
ProgressPublishStep == w.pc = "hook_pub" /\ w'.pc = "extract"
\* the step is a `finished` notification whose publish returns
FinishedStep == w.pc = "extract" /\ w'.pc = "extract" /\ w'.hooks = w.hooks + 1

\* the status, result and error a reader finds in a stored hash
Outcome(hash) ==
    LET job == Val(from_redis("", hash)) IN
    [status |-> job.status, result |-> job.result, error |-> job.error]

C16_ScratchDirRemoved ==
    /\ w.pc = "done" => ~w.temp_dir
    /\ w.pc \notin {"idle", "done"} => w.temp_dir

\* an execution whose failure handler raised itself has ended
C16_Witness ==
    /\ w.pc = "done"
    /\ w.caught # None
    /\ w.handler = "failed"
    /\ ~w.temp_dir

\* C17: when download_media, download_file or the event stream has ended, the Redis
\* handle it opened is closed.
C17_HandlesClosed ==
    /\ w.pc = "done" => ~w.redis_open
    /\ sub.pc = "closed" => ~sub.redis_open
    /\ \A c \in Clients : clients[c].pc \in {"check", "responded"} => ~clients[c].redis_open

\* C18: when the event stream has ended, its subscription has been torn down
\* (unsubscribe and close of the pub/sub object).
C18_SubscriptionTornDown ==
    sub.pc = "closed" => sub.torn_down

TerminalWrites == SelectSeq(w.writes, LAMBDA step : step \in {"set_result", "set_error"})
TerminalEvents == SelectSeq(execEvents, LAMBDA e : e.event \in {"completed", "error"})

\* C20: an execution of download_media that has ended has made exactly one terminal
\* store write and published exactly one terminal event; its first event is `started`
\* and its last event is the terminal one.
C20_OneTerminalWriteAndEvent ==
    w.pc = "done" =>
        /\ Len(TerminalWrites) = 1
        /\ Len(TerminalEvents) = 1
        /\ execEvents[1].event = "started"
        /\ execEvents[Len(execEvents)].event \in {"completed", "error"}

-----------------------------------------------------------------------------
(* Properties of the order of store writes and events *)

\* the step publishes an event of the running execution
PublishStep == Len(execEvents') = Len(execEvents) + 1

\* C21: at the step that publishes an event the record of the job already holds the
\* write the event reports (and the step writes nothing): Succeeded with the result
\* for `completed`, Failed with the message for `error`, Running with the same
\* progress for `progress`, Running for `started`.
C21_EventAfterItsWrite ==
    [][PublishStep =>
          LET e == execEvents'[Len(execEvents')]
              job == Val(from_redis(w.job, jobs[w.job]))
          IN /\ jobs' = jobs
             /\ DOMAIN jobs[w.job] # {}
             /\ e.event = "completed" =>
                   /\ job.status = SUCCEEDED
                   /\ job.result = w.result
                   /\ e.result = public_result(Val(job.result))
             /\ e.event = "error" =>
                   /\ job.status = FAILED
                   /\ job.error = Some(e.message)
             /\ e.event = "progress" =>
                   /\ job.status = RUNNING
                   /\ job.progress = e.progress
             /\ e.event = "started" => job.status = RUNNING]_vars

\* an execution has published `progress` for 45.3% and then `completed`
C21_Witness ==
    /\ Len(execEvents) = 3
    /\ execEvents[2].event = "progress" /\ execEvents[2].progress = 45300
    /\ execEvents[3].event = "completed"
    /\ StatusOf(jobs[w.job]) = SUCCEEDED

-----------------------------------------------------------------------------
(* Properties of the order of token consumption and file check in download_file *)

\* client c has been answered gone
AnsweredGone(c) ==
    /\ clients[c].pc = "responded"
    /\ clients[c].resp # None
    /\ Val(clients[c].resp).code = 410

\* C24: the token of a request is deleted before the file is checked: a request that
\* reaches the check, and one that is answered gone, has its token no longer stored,
\* and a later lookup of a token that another request was answered gone for is
\* answered not-found without reaching the check (never gone, never the file).
C24_TokenConsumedBeforeFileCheck ==
    [][\A c \in Clients :
          /\ clients'[c].pc = "check" => clients'[c].token \notin DOMAIN tokens'
          /\ AnsweredGone(c)' => clients'[c].token \notin DOMAIN tokens'
          /\ (PopStep(c) /\ \E c2 \in Clients \ {c} :
                                AnsweredGone(c2) /\ clients[c2].token = clients[c].token) =>
                /\ clients'[c].pc = "responded"
                /\ clients'[c].resp # None
                /\ Val(clients'[c].resp).code = 404]_vars

\* a request was answered gone for an issued token whose file had been removed, and a
\* repeated request with the same token was answered not-found
C24_Witness ==
    /\ AnsweredGone("c1")
    /\ clients["c1"].token \in 1..Len(minted)
    /\ clients["c2"].token = clients["c1"].token
    /\ clients["c2"].pc = "responded"
    /\ clients["c2"].resp # None
    /\ Val(clients["c2"].resp).code = 404

-----------------------------------------------------------------------------
(* Properties of what the clients are told about a stored artifact *)

\* the optional result block r of a payload has no storage_path
WithoutStoragePath(r) == r # None => "storage_path" \notin DOMAIN Val(r)

\* C25: no payload delivered to a client carries the artifact's storage path: not the
\* result block of a status response, not the result of the snapshot frame of an
\* event stream, and not the result of a forwarded `completed` event.
C25_NoStoragePathToClient ==
    /\ (api.op = "status" /\ api.resp # None /\ Val(api.resp).code = 200) =>
            WithoutStoragePath(Val(api.resp).body.result)
    /\ \A i \in 1..Len(sub.frames) :
            LET f == sub.frames[i] IN
            IF "event" \in DOMAIN f
            THEN WithoutStoragePath(f.data.result)
            ELSE f.data.event = "completed" => "storage_path" \notin DOMAIN f.data.result

-----------------------------------------------------------------------------
(* Properties of concurrent calls of LocalStorageBackend.store *)

\* C23: two calls of store with the same job id (and date) and the same preferred
\* name, however their existence checks and moves interleave, end with distinct
\* destinations, and neither move replaces the file the other placed.
C23_ConcurrentStoresDistinct ==
    \A p, q \in StoreCallers :
        (/\ p # q
         /\ stores[p].pc = "done" /\ stores[q].pc = "done"
         /\ stores[p].job_id = stores[q].job_id
         /\ stores[p].preferred_name = stores[q].preferred_name) =>
            /\ stores[p].destination # stores[q].destination
            /\ ~stores[p].overwrote
            /\ ~stores[q].overwrote

====
